---- MODULE Spec2Model ----
(***************************************************************************)
(* Model of the per-frame simulation update of boids-rs: State::update     *)
(* (src/src/state.rs), Boid::update / Boid::add_vel (src/src/boid.rs) and  *)
(* the Vec2 arithmetic (src/src/vec2.rs).                                  *)
(*                                                                         *)
(* Numbers.  The partition arithmetic of State::update (lines 194-197) is  *)
(* modelled bit-exactly as IEEE-754 binary32 (24-bit significand, round to *)
(* nearest even) on integers.  Geometry (locations, velocities, forces) is *)
(* modelled in fixed point: the integer v stands for the f32 v / Scale.    *)
(* Population indices are 0-based as in the source.                        *)
(***************************************************************************)
EXTENDS Integers, Sequences, FiniteSets, TLC

(***************************************************************************)
(* Bounds of the exploration.                                              *)
(***************************************************************************)
MaxN == 2
MaxT == 2
MaxFrames == 2
WideN == 7
WideT == 13

(***************************************************************************)
(* Program constants, in fixed point (value * Scale).                      *)
(***************************************************************************)
Scale == 10000
RADIUS == 300
EDGE == 8000
RAMP == 2000
STEP == 50
FORCE_WEIGHT == 6000
WANDER_WEIGHT == 2000
SEPARATION_WEIGHT == 20000
ALIGNMENT_WEIGHT == 5000
COHESION_WEIGHT == 6000

(***************************************************************************)
(* IEEE-754 binary32 on small non-negative values: [m, e] is m * 2^e.      *)
(***************************************************************************)
RECURSIVE Pow2(_)
Pow2(k) == IF k = 0 THEN 1 ELSE 2 * Pow2(k - 1)

F32Zero == [m |-> 0, e |-> 0]

\* smallest k >= 0 with a * 2^k >= 2^23 * b
RECURSIVE DivShift(_, _, _)
DivShift(a, b, k) == IF a * Pow2(k) >= Pow2(23) * b THEN k ELSE DivShift(a, b, k + 1)

\* round-to-nearest-even of the quotient q with remainder r out of d
RoundNearestEven(q, r, d) ==
    IF 2 * r > d \/ (2 * r = d /\ q % 2 = 1) THEN q + 1 ELSE q

\* `a as f32 / b as f32` for integers 0 <= a < 2^23 * b, 1 <= b, both exact in f32
F32Div(a, b) ==
    IF a = 0 THEN F32Zero
    ELSE LET k == DivShift(a, b, 0)
             n == a * Pow2(k)
         IN  [m |-> RoundNearestEven(n \div b, n % b, b), e |-> -k]

\* smallest s >= 0 with p < 2^(24+s)
RECURSIVE MulShift(_, _)
MulShift(p, s) == IF p < Pow2(24 + s) THEN s ELSE MulShift(p, s + 1)

\* `f * i as f32` for a small integer i >= 0 (exact in f32)
F32Mul(f, i) ==
    LET p == f.m * i
        s == MulShift(p, 0)
        d == Pow2(s)
    IN  IF p = 0 THEN F32Zero
        ELSE [m |-> RoundNearestEven(p \div d, p % d, d), e |-> f.e + s]

\* `f.ceil() as usize`
F32Ceil(f) ==
    IF f.m = 0 THEN 0
    ELSE IF f.e >= 0 THEN f.m * Pow2(f.e)
    ELSE LET d == Pow2(-f.e) IN (f.m + d - 1) \div d

\* boids_per_thread = boid_count as f32 / thread_count as f32
BoidsPerThread(n, t) == F32Div(n, t)

\* the bound (boids_per_thread * i as f32).ceil() as usize
RangeBound(n, t, i) == F32Ceil(F32Mul(BoidsPerThread(n, t), i))

\* the index range start..end handed to worker i (0-based), end exclusive
RangeOf(n, t, i) == [lo |-> RangeBound(n, t, i), hi |-> RangeBound(n, t, i + 1)]

(***************************************************************************)
(* Fixed-point helpers: the f32 operations on geometry, on value * Scale.  *)
(***************************************************************************)
Abs(a) == IF a < 0 THEN -a ELSE a

\* a / b rounded to the nearest grid value (b > 0), symmetric in the sign of a
RDiv(a, b) == IF a >= 0 THEN (2 * a + b) \div (2 * b) ELSE -((2 * (-a) + b) \div (2 * b))

\* product of two fixed-point numbers
FMul(a, b) == RDiv(a * b, Scale)

\* f32::powi(3): repeated multiplication
Powi3(a) == FMul(FMul(a, a), a)

\* floor of the square root, by bisection on lo..hi
RECURSIVE SqrtSearch(_, _, _)
SqrtSearch(n, lo, hi) ==
    IF lo >= hi THEN lo
    ELSE LET mid == (lo + hi + 1) \div 2
         IN  IF mid * mid <= n THEN SqrtSearch(n, mid, hi) ELSE SqrtSearch(n, lo, mid - 1)

\* f32::sqrt: the square root rounded to the nearest integer
Sqrt(n) ==
    IF n = 0 THEN 0
    ELSE LET r == SqrtSearch(n, 0, 32767) IN IF n - r * r > r THEN r + 1 ELSE r

(***************************************************************************)
(* Vec2 (src/src/vec2.rs).  fin = FALSE stands for a non-finite component  *)
(* (NaN or Inf), which every operation propagates.                         *)
(***************************************************************************)
Vec2(x, y) == [x |-> x, y |-> y, fin |-> TRUE]

NonFinite == [x |-> 0, y |-> 0, fin |-> FALSE]

\* Vec2::add
VAdd(a, b) == IF a.fin /\ b.fin THEN Vec2(a.x + b.x, a.y + b.y) ELSE NonFinite

\* Vec2::sub
VSub(a, b) == IF a.fin /\ b.fin THEN Vec2(a.x - b.x, a.y - b.y) ELSE NonFinite

\* Vec2::mul by a fixed-point factor
VMul(a, factor) == IF a.fin THEN Vec2(FMul(a.x, factor), FMul(a.y, factor)) ELSE NonFinite

\* Vec2::div by `len() as f32`, an integer count; x / 0.0 is NaN or Inf
VDiv(a, count) ==
    IF a.fin /\ count # 0 THEN Vec2(RDiv(a.x, count), RDiv(a.y, count)) ELSE NonFinite

\* Vec2::length, in fixed point
Length(a) == Sqrt(a.x * a.x + a.y * a.y)

\* The significand of a vector: both components scaled by the power of two
\* that brings the larger one into 2^13 .. 2^14 - 1, so that the quotient
\* x / length keeps the relative precision a float has at any magnitude.
RECURSIVE Significand(_, _)
Significand(x, y) ==
    LET big == IF Abs(x) > Abs(y) THEN Abs(x) ELSE Abs(y)
    IN  IF big = 0 THEN <<0, 0>>
        ELSE IF big < 8192 THEN Significand(2 * x, 2 * y)
        ELSE IF big >= 16384 THEN Significand(RDiv(x, 2), RDiv(y, 2))
        ELSE <<x, y>>

\* faulty variant: normalize without the zero guard
NeverGuarded(a) == FALSE

\* the divisor of Vec2::normalize: length(), replaced by 1.0 when it is 0.0
NormDivisorIsGuarded(a) == a.x = 0 /\ a.y = 0

\* Vec2::normalize
Normalize(a) ==
    IF ~a.fin THEN NonFinite
    ELSE IF NormDivisorIsGuarded(a) THEN a
    ELSE LET s == Significand(a.x, a.y)
             len == Sqrt(s[1] * s[1] + s[2] * s[2])
         IN  IF len = 0 THEN NonFinite   \* 0.0 / 0.0
             ELSE Vec2(RDiv(s[1] * Scale, len), RDiv(s[2] * Scale, len))

(***************************************************************************)
(* Boid (src/src/boid.rs).                                                 *)
(***************************************************************************)
Boid(location, vel) == [location |-> location, vel |-> vel]

\* Boid::add_vel
AddVel(boid, vel, factor) ==
    [boid EXCEPT !.vel = Normalize(VAdd(boid.vel, VMul(vel, factor)))]

\* the four boundary tests of Boid::update and their pushes
PastXLow(boid) == boid.location.x < -EDGE
PastXHigh(boid) == boid.location.x > EDGE
PastYLow(boid) == boid.location.y < -EDGE
PastYHigh(boid) == boid.location.y > EDGE

\* ((overshoot) / 0.2).powi(3)
Push(overshoot) == Powi3(RDiv(overshoot * Scale, RAMP))

BoundXLow(boid) ==
    IF PastXLow(boid) THEN AddVel(boid, Vec2(Scale, 0), Push(-boid.location.x - EDGE)) ELSE boid
BoundXHigh(boid) ==
    IF PastXHigh(boid) THEN AddVel(boid, Vec2(-Scale, 0), Push(boid.location.x - EDGE)) ELSE boid
BoundYLow(boid) ==
    IF PastYLow(boid) THEN AddVel(boid, Vec2(0, Scale), Push(-boid.location.y - EDGE)) ELSE boid
BoundYHigh(boid) ==
    IF PastYHigh(boid) THEN AddVel(boid, Vec2(0, -Scale), Push(boid.location.y - EDGE)) ELSE boid

\* self.vel.mul(0.005); self.location.add(&self.vel)
Integrate(boid) ==
    LET v == VMul(boid.vel, STEP) IN [location |-> VAdd(boid.location, v), vel |-> v]

\* self.vel.normalize()
Renormalize(boid) == [boid EXCEPT !.vel = Normalize(boid.vel)]

\* self.add_vel(random vector, 0.2)
Wander(boid, draw) == AddVel(boid, draw, WANDER_WEIGHT)

(***************************************************************************)
(* The flocking force of one agent (State::update, the worker closure).    *)
(***************************************************************************)
\* Vec::len
Count(population) == Cardinality(DOMAIN population)

\* QuadTree::insert of every location, keyed by population index
BuildQuadTree(population) == [i \in DOMAIN population |-> population[i].location]

\* QuadTree::in_circle (crate spatial_neighbors): the keys of the points within
\* `radius` of `point`, the point of the querying agent itself included; a
\* non-finite coordinate compares false with everything
InCircle(tree, point, radius) ==
    IF ~point.fin THEN {}
    ELSE {j \in DOMAIN tree :
            /\ tree[j].fin
            /\ (tree[j].x - point.x) * (tree[j].x - point.x)
                 + (tree[j].y - point.y) * (tree[j].y - point.y) <= radius * radius}

RECURSIVE VSum(_, _)
VSum(S, f) ==
    IF S = {} THEN Vec2(0, 0)
    ELSE LET j == CHOOSE k \in S : TRUE IN VAdd(f[j], VSum(S \ {j}, f))

\* the separation term one neighbour contributes
SeparationVec(boid, neighbor) ==
    LET separation_vec == VSub(boid.location, neighbor.location)
        new_length == Powi3(RDiv((RADIUS - Length(separation_vec)) * Scale, RADIUS))
    IN  VMul(Normalize(separation_vec), new_length)

\* the neighbours the loop accumulates: the query's result without the agent
Others(neighbor_boids, index) == neighbor_boids \ {index}

\* the divisor of the three accumulators: neighbor_boids.len()
Divisor(neighbor_boids) == Cardinality(neighbor_boids)

\* faulty variant: the operands of the subtraction swapped
CohesionDirectionSwapped(mean, location) == VSub(location, mean)

\* cohesion.sub(&boid.location): from the agent towards the neighbours' mean
CohesionDirection(mean, location) == VSub(mean, location)

\* the composite force pushed to new_vel for snapshot index `index`
ComputeForce(snapshot, tree, index) ==
    LET boid == snapshot[index]
        neighbor_boids == InCircle(tree, boid.location, RADIUS)
        others == Others(neighbor_boids, index)
        count == Divisor(neighbor_boids)
        separation == VMul(VDiv(VSum(others,
                         [j \in others |-> SeparationVec(boid, snapshot[j])]), count),
                         SEPARATION_WEIGHT)
        alignment == VMul(VDiv(VSum(others, [j \in others |-> snapshot[j].vel]), count),
                         ALIGNMENT_WEIGHT)
        cohesion == VMul(CohesionDirection(
                         VDiv(VSum(others, [j \in others |-> snapshot[j].location]), count),
                         boid.location), COHESION_WEIGHT)
    IN  VAdd(VAdd(cohesion, separation), alignment)

(***************************************************************************)
(* State.                                                                  *)
(***************************************************************************)
VARIABLES
    self_boids,    \* State.boids, the live population: index -> Boid
    thread_count,  \* num_cpus::get()
    phase,         \* where the main thread is in State::update
    quad_tree,     \* the frame's spatial index (Arc<QuadTree>)
    boids,         \* the frame snapshot (Arc<Vec<Boid>>)
    threads,       \* the spawned workers, in spawn order
    joined,        \* how many workers the join loop has consumed
    new_vels,      \* the joined workers' buffers, in join order
    index,         \* the running commit index
    step,          \* the next statement of the commit body for agent `index`
    frames_left,   \* frames the exploration still runs
    start_boids,   \* history: the live population when the current frame began
    applied,       \* history: per agent, what the current frame did to it
    force_for,     \* history: per agent, the snapshot index of each force applied
    wander_for,    \* history: per agent, the wander vectors the current frame drew
    completed      \* history: calls of update that returned

vars == <<self_boids, thread_count, phase, quad_tree, boids, threads, joined, new_vels,
          index, step, frames_left, start_boids, applied, force_for, wander_for,
          completed>>

Empty == [i \in {} |-> 0]

RECURSIVE Flatten(_)
Flatten(vecs) == IF vecs = <<>> THEN <<>> ELSE Head(vecs) \o Flatten(Tail(vecs))

(***************************************************************************)
(* Initial states.                                                         *)
(***************************************************************************)
Origin == Vec2(0, 0)

\* Boid::new_random: at the origin, velocity components in [-1, 1), not normalized
InitVels == {Vec2(0, 0), Vec2(5000, -Scale)}

\* rng.gen::<f32>() * 2.0 - 1.0 for both components of the wander vector
WanderDraws == {Vec2(0, 0), Vec2(Scale - 1, -Scale)}

\* locations and headings an agent can have after some frames
ArenaLocations ==
    {Origin, Vec2(100, 0), Vec2(9000, 0), Vec2(-9000, 9000), Vec2(EDGE, -9000)}
NeighbourLocations == {Vec2(100, 0), Vec2(-9000, 9000)}
UnitVels ==
    {Vec2(Scale, 0), Vec2(0, Scale), Vec2(-Scale, 0), Vec2(0, -Scale),
     Vec2(6000, -8000), Vec2(-8000, 6000)}

Locals ==
    /\ phase = "Idle"
    /\ quad_tree = Empty
    /\ boids = Empty
    /\ threads = <<>>
    /\ joined = 0
    /\ new_vels = <<>>
    /\ index = 0
    /\ step = "add_vel"
    /\ start_boids = self_boids
    /\ applied = [i \in DOMAIN self_boids |-> <<>>]
    /\ force_for = [i \in DOMAIN self_boids |-> <<>>]
    /\ wander_for = [i \in DOMAIN self_boids |-> <<>>]
    /\ completed = 0

\* State::new: every boid at the origin with a random velocity
InitConstructed ==
    /\ \E n \in 1..MaxN :
         self_boids \in [0..(n - 1) -> {Boid(Origin, v) : v \in InitVels}]
    /\ thread_count \in 1..MaxT
    /\ frames_left = MaxFrames
    /\ Locals

\* State::new on a machine with many cores
InitWide ==
    /\ self_boids = [i \in 0..(WideN - 1) |-> Boid(Origin, Vec2(5000, -Scale))]
    /\ thread_count = WideT
    /\ frames_left = 1
    /\ Locals

\* a population some frames into the run: agents spread over the arena, unit headings
InitArena ==
    /\ \E n \in 1..MaxN :
         \E first \in {Boid(l, v) : l \in ArenaLocations, v \in UnitVels} :
           \E rest \in [1..(n - 1) -> {Boid(l, Vec2(0, Scale)) : l \in NeighbourLocations}] :
             self_boids = [i \in 0..(n - 1) |-> IF i = 0 THEN first ELSE rest[i]]
    /\ thread_count \in 1..MaxT
    /\ frames_left = 1
    /\ Locals

Init == InitConstructed \/ InitWide \/ InitArena

(***************************************************************************)
(* State::update, one action per step of the main thread and of a worker.  *)
(***************************************************************************)

\* lines 176-184: a fresh quad tree over the live population
BuildSpatialIndex ==
    /\ phase = "Idle"
    /\ frames_left > 0
    /\ quad_tree' = BuildQuadTree(self_boids)
    /\ phase' = "BuildSpatialIndex"
    /\ start_boids' = self_boids
    /\ applied' = [i \in DOMAIN self_boids |-> <<>>]
    /\ force_for' = [i \in DOMAIN self_boids |-> <<>>]
    /\ wander_for' = [i \in DOMAIN self_boids |-> <<>>]
    /\ UNCHANGED <<self_boids, thread_count, boids, threads, joined, new_vels, index, step,
                   frames_left, completed>>

\* lines 186-194: the Arcs, the clone of the population, the thread count
BuildSnapshot ==
    /\ phase = "BuildSpatialIndex"
    /\ boids' = self_boids
    /\ phase' = "BuildSnapshot"
    /\ UNCHANGED <<self_boids, thread_count, quad_tree, threads, joined, new_vels, index,
                   step, frames_left, start_boids, applied, force_for,
                   wander_for, completed>>

\* faulty variant: the spawn loop placed before the clone of the population
SpawnBeforeSnapshot ==
    phase \in {"BuildSpatialIndex", "BuildSnapshot", "Dispatch"} /\ Len(threads) < thread_count

\* the spawn loop runs once the snapshot exists, while workers are missing
SpawnReady == phase \in {"BuildSnapshot", "Dispatch"} /\ Len(threads) < thread_count

\* faulty variant: the worker's loop starts one past the start of its range
NewThreadOffByOne(range) ==
    [range |-> range, pos |-> range.lo + 1, new_vel |-> <<>>, status |-> "running"]

\* a spawned worker: its range, the next index of its loop, its private buffer
NewThread(range) ==
    [range |-> range, pos |-> range.lo, new_vel |-> <<>>, status |-> "running"]

\* lines 196-252, one iteration: compute the range of worker i and spawn it
Spawn ==
    /\ SpawnReady
    /\ threads' = Append(threads,
                     NewThread(RangeOf(Count(self_boids), thread_count, Len(threads))))
    /\ phase' = "Dispatch"
    /\ UNCHANGED <<self_boids, thread_count, quad_tree, boids, joined, new_vels, index, step,
                   frames_left, start_boids, applied, force_for,
                   wander_for, completed>>

\* lines 203-250, one iteration of a worker's loop; the iteration that
\* exhausts the range also returns new_vel, and a worker with an empty range
\* only returns.  boids.get(index).unwrap() panics past the snapshot's end.
\* An entry of new_vel carries, as history, the index it was computed for.
WorkerIteration(thread) ==
    IF thread.pos >= thread.range.hi THEN [thread EXCEPT !.status = "done"]
    ELSE IF thread.pos \notin DOMAIN boids THEN [thread EXCEPT !.status = "panicked"]
    ELSE [thread EXCEPT
            !.new_vel = Append(@, [v |-> ComputeForce(boids, quad_tree, thread.pos),
                                   for |-> thread.pos]),
            !.pos = @ + 1,
            !.status = IF thread.pos + 1 >= thread.range.hi THEN "done" ELSE "running"]

WorkerStep(t) ==
    /\ threads[t].status = "running"
    /\ threads' = [threads EXCEPT ![t] = WorkerIteration(threads[t])]
    /\ UNCHANGED <<self_boids, thread_count, phase, quad_tree, boids, joined, new_vels,
                   index, step, frames_left, start_boids, applied, force_for,
                   wander_for, completed>>

\* the join loop starts after the last spawn and blocks on the next worker
JoinReady ==
    /\ phase \in {"Dispatch", "Join"}
    /\ Len(threads) = thread_count
    /\ joined < thread_count
    /\ threads[joined + 1].status # "running"

\* faulty variant: the result of join() is not inspected
JoinResultIgnored(thread) == "Ok"

\* thread.join(): Err when the worker panicked; expect() then panics
JoinResult(thread) == IF thread.status = "panicked" THEN "Err" ELSE "Ok"

\* faulty variant: the buffers collected in reverse order
JoinPushFront(vels, new_vel) == <<new_vel>> \o vels

\* new_vels.push(...)
JoinPush(vels, new_vel) == Append(vels, new_vel)

\* lines 254-260, one iteration of the join loop
Join ==
    /\ JoinReady
    /\ IF JoinResult(threads[joined + 1]) = "Ok"
       THEN /\ new_vels' = JoinPush(new_vels, threads[joined + 1].new_vel)
            /\ joined' = joined + 1
            /\ phase' = "Join"
       ELSE /\ phase' = "Panicked"
            /\ UNCHANGED <<new_vels, joined>>
    /\ UNCHANGED <<self_boids, thread_count, quad_tree, boids, threads, index, step,
                   frames_left, start_boids, applied, force_for,
                   wander_for, completed>>

\* faulty variant: the commit starts as soon as one worker is joined
CommitAfterFirstJoin ==
    \/ phase = "Join"
    \/ phase = "Commit"

\* the commit loops run once the join loop is over
CommitReady ==
    \/ phase = "Join" /\ joined = thread_count
    \/ phase = "Commit"

\* the forces the commit loops iterate, in iteration order
Forces == Flatten(new_vels)

\* faulty variant: the integration moved in front of the boundary tests
NextStepIntegrateFirst(s) ==
    CASE s = "add_vel" -> "integrate"
      [] s = "integrate" -> "x_low"
      [] s = "x_low" -> "x_high"
      [] s = "x_high" -> "y_low"
      [] s = "y_low" -> "y_high"
      [] s = "y_high" -> "normalize"
      [] s = "normalize" -> "wander"
      [] s = "wander" -> "add_vel"

\* the order of the statements of the commit body: line 269, then Boid::update
NextStep(s) ==
    CASE s = "add_vel" -> "x_low"
      [] s = "x_low" -> "x_high"
      [] s = "x_high" -> "y_low"
      [] s = "y_low" -> "y_high"
      [] s = "y_high" -> "integrate"
      [] s = "integrate" -> "normalize"
      [] s = "normalize" -> "wander"
      [] s = "wander" -> "add_vel"

\* faulty variant: the body also takes over the heading of the agent before
SubjectAfterPrevious(population, i) ==
    IF i - 1 \in DOMAIN population
    THEN [population[i] EXCEPT !.vel = population[i - 1].vel]
    ELSE population[i]

\* line 267: self.boids.get_mut(index).unwrap(), the one agent the body works on
Subject(population, i) == population[i]

\* a statement of the commit body that only rewrites the agent at `index`
CommitBody(s, effect) ==
    /\ phase = "Commit"
    /\ step = s
    /\ self_boids' = [self_boids EXCEPT ![index] = effect]
    /\ step' = NextStep(s)
    /\ UNCHANGED <<thread_count, phase, quad_tree, boids, threads, joined, new_vels, index,
                   frames_left, start_boids, applied, force_for,
                   wander_for, completed>>

\* lines 265-269: the next force; self.boids.get_mut(index).unwrap() panics
\* past the population's end; boid.add_vel(boid_vel, 0.6)
CommitAddVel ==
    /\ CommitReady
    /\ step = "add_vel"
    /\ index < Len(Forces)
    /\ IF index \in DOMAIN self_boids
       THEN /\ self_boids' = [self_boids EXCEPT
                                ![index] = AddVel(Subject(self_boids, index),
                                                  Forces[index + 1].v, FORCE_WEIGHT)]
            /\ applied' = [applied EXCEPT ![index] = Append(@, "add_vel")]
            /\ force_for' = [force_for EXCEPT ![index] = Append(@, Forces[index + 1].for)]
            /\ step' = NextStep("add_vel")
            /\ phase' = "Commit"
       ELSE /\ phase' = "Panicked"
            /\ UNCHANGED <<self_boids, applied, force_for, step>>
    /\ UNCHANGED <<thread_count, quad_tree, boids, threads, joined, new_vels, index,
                   frames_left, start_boids, wander_for, completed>>

\* boid.rs lines 28-30
CommitXLow == CommitBody("x_low", BoundXLow(Subject(self_boids, index)))
\* boid.rs lines 32-34
CommitXHigh == CommitBody("x_high", BoundXHigh(Subject(self_boids, index)))
\* boid.rs lines 36-38
CommitYLow == CommitBody("y_low", BoundYLow(Subject(self_boids, index)))
\* boid.rs lines 40-42
CommitYHigh == CommitBody("y_high", BoundYHigh(Subject(self_boids, index)))
\* boid.rs lines 44-46
CommitIntegrate == CommitBody("integrate", Integrate(Subject(self_boids, index)))
\* boid.rs line 48
CommitNormalize == CommitBody("normalize", Renormalize(Subject(self_boids, index)))

\* boid.rs lines 50-51, the end of Boid::update, and index += 1 (line 272)
CommitWander ==
    /\ phase = "Commit"
    /\ step = "wander"
    /\ \E draw \in WanderDraws :
         /\ self_boids' = [self_boids EXCEPT ![index] = Wander(Subject(self_boids, index), draw)]
         /\ wander_for' = [wander_for EXCEPT ![index] = Append(@, draw)]
    /\ applied' = [applied EXCEPT ![index] = Append(@, "update")]
    /\ step' = NextStep("wander")
    /\ index' = index + 1
    /\ UNCHANGED <<thread_count, phase, quad_tree, boids, threads, joined, new_vels,
                   frames_left, start_boids, force_for, completed>>

\* lines 276-277: the loops are over, update returns and its locals are dropped
Return ==
    /\ CommitReady
    /\ step = "add_vel"
    /\ index = Len(Forces)
    /\ phase' = "Idle"
    /\ quad_tree' = Empty
    /\ boids' = Empty
    /\ threads' = <<>>
    /\ joined' = 0
    /\ new_vels' = <<>>
    /\ index' = 0
    /\ frames_left' = frames_left - 1
    /\ completed' = completed + 1
    /\ UNCHANGED <<self_boids, thread_count, step, start_boids, applied, force_for,
                   wander_for>>

Next ==
    \/ BuildSpatialIndex
    \/ BuildSnapshot
    \/ Spawn
    \/ \E t \in 1..Len(threads) : WorkerStep(t)
    \/ Join
    \/ CommitAddVel
    \/ CommitXLow
    \/ CommitXHigh
    \/ CommitYLow
    \/ CommitYHigh
    \/ CommitIntegrate
    \/ CommitNormalize
    \/ CommitWander
    \/ Return

Spec == Init /\ [][Next]_vars

(***************************************************************************)
(* Properties.                                                             *)
(***************************************************************************)
Spawned == 1..Len(threads)
Unjoined == {t \in Spawned : t > joined}
AllSpawned == Len(threads) = thread_count
FrameDone == phase = "Idle" /\ completed > 0
Indices(thread) == thread.range.lo..(thread.range.hi - 1)

\* C1: once every worker is spawned, every agent index lies in the range of
\* exactly one worker and no range holds an index >= the population size.
PartitionCoversEachIndexOnce ==
    AllSpawned =>
        /\ \A k \in DOMAIN self_boids :
             Cardinality({t \in Spawned : k \in Indices(threads[t])}) = 1
        /\ \A t \in Spawned : Indices(threads[t]) \subseteq DOMAIN self_boids

\* C2: while any spawned worker is not yet joined, no step writes the live
\* population, the snapshot or the spatial index, and the live population is
\* still the one the frame began with (the first write comes after the joins).
WorkersNeverSeeAWrite ==
    [][Unjoined # {} =>
          /\ self_boids' = self_boids
          /\ self_boids = start_boids
          /\ boids' = boids
          /\ quad_tree' = quad_tree]_vars

C2Witness ==
    \E t \in Unjoined : Len(threads[t].new_vel) > 0 /\ Len(threads) > 1

\* C3: a frame that completed has applied add_vel and then Boid::update to
\* every agent exactly once, and has left the population's length unchanged;
\* during the commit no agent ever gets more than that.
EveryAgentCommittedOnce ==
    /\ \A k \in DOMAIN applied :
         applied[k] \in {<<>>, <<"add_vel">>, <<"add_vel", "update">>}
    /\ FrameDone =>
         /\ DOMAIN self_boids = DOMAIN start_boids
         /\ \A k \in DOMAIN self_boids : applied[k] = <<"add_vel", "update">>

C3Witness ==
    FrameDone /\ Count(self_boids) = MaxN /\ thread_count = MaxT /\ completed = MaxFrames

\* C4: the force applied to the live agent k was computed for snapshot index
\* k, and the joined buffers, concatenated, hold the forces in index order.
ForceReachesItsOwnAgent ==
    /\ \A k \in DOMAIN force_for : \A i \in 1..Len(force_for[k]) : force_for[k][i] = k
    /\ \A i \in 1..Len(Forces) : Forces[i].for = i - 1

C4Witness ==
    /\ phase = "Commit"
    /\ index >= 2
    /\ Len(new_vels) >= 2
    /\ \A i \in 1..2 : Len(new_vels[i]) > 0

\* C5: once a worker has panicked the frame never commits: the live population
\* stays as the frame found it, no force is applied, and update ends by
\* panicking at the join of a panicked worker.
AnyPanicked == \E t \in Spawned : threads[t].status = "panicked"

WorkerPanicIsFatalToFrame ==
    /\ AnyPanicked =>
         /\ phase \in {"Dispatch", "Join", "Panicked"}
         /\ self_boids = start_boids
         /\ index = 0
         /\ \A k \in DOMAIN applied : applied[k] = <<>>
    /\ phase = "Panicked" =>
         /\ joined < Len(threads)
         /\ threads[joined + 1].status = "panicked"

C5Witness == phase = "Panicked" /\ AnyPanicked /\ self_boids = start_boids

\* C6: no velocity or location is ever non-finite, and after the commit of a
\* frame every velocity has unit length within tolerance or is exactly zero.
UnitTolerance == 3 * Scale

IsUnit(v) == Abs(v.x * v.x + v.y * v.y - Scale * Scale) <= UnitTolerance

VelocityUnitOrZeroAfterCommit ==
    /\ \A k \in DOMAIN self_boids : self_boids[k].vel.fin /\ self_boids[k].location.fin
    /\ \A k \in DOMAIN self_boids :
         (FrameDone \/ (phase = "Commit" /\ k < index)) =>
             IsUnit(self_boids[k].vel) \/ self_boids[k].vel = Vec2(0, 0)

C6Witness ==
    /\ FrameDone
    /\ \E k \in DOMAIN self_boids : self_boids[k].vel = Vec2(0, 0)
    /\ \E k \in DOMAIN self_boids : IsUnit(self_boids[k].vel)

\* C7: the force a worker computed for an agent whose radius query returns
\* no other agent is the zero vector.
Isolated(k) == InCircle(quad_tree, boids[k].location, RADIUS) \subseteq {k}

IsolatedAgentGetsZeroForce ==
    \A t \in Spawned : \A i \in 1..Len(threads[t].new_vel) :
        LET entry == threads[t].new_vel[i]
        IN  (entry.for \in DOMAIN boids /\ Isolated(entry.for)) => entry.v = Vec2(0, 0)

\* C8: a single agent that began the frame at (0.9, 0) with a unit velocity
\* ends the frame with a negative x-component of velocity.
AloneAtPointNine ==
    /\ FrameDone
    /\ Count(start_boids) = 1
    /\ start_boids[0].location = Vec2(9000, 0)
    /\ IsUnit(start_boids[0].vel)

StepOrder ==
    {<<"add_vel", "x_low">>, <<"x_low", "x_high">>, <<"x_high", "y_low">>,
     <<"y_low", "y_high">>, <<"y_high", "integrate">>, <<"integrate", "normalize">>,
     <<"normalize", "wander">>, <<"wander", "add_vel">>}

StrictlyPast(s, location) ==
    CASE s = "x_low" -> location.x < -EDGE
      [] s = "x_high" -> location.x > EDGE
      [] s = "y_low" -> location.y < -EDGE
      [] s = "y_high" -> location.y > EDGE

CommitEffectsInOrder ==
    [][(phase' = "Commit" /\ step' # step) =>
          LET pre == self_boids[index]
              post == self_boids'[index]
              began == start_boids[index]
          IN  /\ <<step, step'>> \in StepOrder
              /\ step = "add_vel" =>
                   post = AddVel(began, Forces'[index + 1].v, 6000)
              /\ step \in {"x_low", "x_high", "y_low", "y_high"} =>
                   /\ pre.location = began.location
                   /\ post.location = pre.location
                   /\ post.vel # pre.vel => StrictlyPast(step, began.location)
              /\ step = "integrate" =>
                   /\ pre.location = began.location
                   /\ post.location = VAdd(began.location, VMul(pre.vel, 50))
              /\ step \in {"normalize", "wander"} =>
                   /\ post.location = pre.location
                   /\ IsUnit(post.vel) \/ post.vel = Vec2(0, 0)]_vars

C9Witness ==
    /\ phase = "Commit"
    /\ step = "integrate"
    /\ start_boids[index].location = Vec2(EDGE, -9000)
    /\ self_boids[index].vel # start_boids[index].vel

\* C10 as claimed: the phases of a call follow one another in the order
\* Idle, BuildSnapshot, BuildSpatialIndex, Dispatch, Join, Commit, Idle.
ClaimedPhaseOrder ==
    {<<"Idle", "BuildSnapshot">>, <<"BuildSnapshot", "BuildSpatialIndex">>,
     <<"BuildSpatialIndex", "Dispatch">>, <<"Dispatch", "Join">>, <<"Join", "Commit">>,
     <<"Commit", "Idle">>}

CodePhaseOrder ==
    {<<"Idle", "BuildSpatialIndex">>, <<"BuildSpatialIndex", "BuildSnapshot">>,
     <<"BuildSnapshot", "Dispatch">>, <<"Dispatch", "Join">>, <<"Join", "Commit">>,
     <<"Commit", "Idle">>, <<"Dispatch", "Panicked">>, <<"Join", "Panicked">>}

CommitAgent(boid, force, draw) ==
    LET forced == AddVel(boid, force, FORCE_WEIGHT)
        bounded == BoundYHigh(BoundYLow(BoundXHigh(BoundXLow(forced))))
    IN  Wander(Renormalize(Integrate(bounded)), draw)

RECURSIVE CommitInOrder(_, _, _, _)
CommitInOrder(population, forces, draws, order) ==
    IF order = <<>> THEN population
    ELSE LET k == Head(order)
         IN  CommitInOrder([population EXCEPT
                              ![k] = CommitAgent(Subject(population, k), forces[k], draws[k])],
                           forces, draws, Tail(order))

Orders(S) ==
    {order \in [1..Cardinality(S) -> S] :
       \A i, j \in 1..Cardinality(S) : i # j => order[i] # order[j]}

CommitLoopOver ==
    /\ phase = "Commit"
    /\ step = "add_vel"
    /\ index = Len(Forces)
    /\ index = Count(self_boids)

CommitOrderDoesNotMatter ==
    /\ phase = "Commit" /\ step = "add_vel" =>
         \A k \in DOMAIN self_boids :
           /\ k < index =>
                self_boids[k] = CommitAgent(start_boids[k], Forces[k + 1].v, wander_for[k][1])
           /\ k >= index => self_boids[k] = start_boids[k]
    /\ CommitLoopOver /\ Count(self_boids) <= MaxN =>
         \A order \in Orders(DOMAIN start_boids) :
           CommitInOrder(start_boids,
                         [k \in DOMAIN start_boids |-> Forces[k + 1].v],
                         [k \in DOMAIN start_boids |-> wander_for[k][1]],
                         order) = self_boids

C11Witness ==
    /\ CommitLoopOver
    /\ Count(self_boids) = MaxN
    /\ start_boids[0] # start_boids[1]
    /\ wander_for[0] # wander_for[1]
    /\ \A k \in DOMAIN self_boids : self_boids[k] # start_boids[k]

====
